---- MODULE Spec2Model ----
(***************************************************************************)
(* PriceWise (M5) dynamic pricing demo: the price-decision handler          *)
(* choose_price of app.py, the helpers expected_qty / expected_revenue it   *)
(* calls, and the objects loaded from the artifact at process start.        *)
(*                                                                          *)
(* Numbers.  Prices, quantities and revenues are whole units.  A score is   *)
(* a fixed-point number [w, f] meaning w + f/100 with 0 <= f < 100, so the  *)
(* bonus alpha*sigma (alpha in tenths, sigma in tenths) is added exactly    *)
(* and the sentinel -1e9 keeps its magnitude.  The regression output mu is  *)
(* carried by e = exp(mu) (a non-negative number), so the inverse           *)
(* transform of expected_qty is max(0, e - 1).  float("nan") and            *)
(* float("inf") are kept as values of their own.                            *)
(***************************************************************************)
EXTENDS Integers, Sequences, FiniteSets, TLC

\* ---------------------------------------------------------------- bounds
MaxLen == 3
MaxStrLen == 2

\* prices an artifact's grid may hold (nothing validates them at load time)
Prices == {0, 4, 5}
\* values of exp(mu) the regression may answer with
ExpMus == {0, 9, 11}
\* the characters a typed min_margin is made of, plus the two literals below
Chars == {" ", "5", "a"}
NanText == <<"n", "a", "n">>
InfText == <<"i", "n", "f">>
StoredItem == "FOODS_1_001"
ItemIds == {"", StoredItem}
Contexts == {[weekday |-> "Friday", month |-> 11, is_event |-> 0]}
PosPrices == {p \in Prices : p > 0}
\* encoded contexts, entries in halves (0, 1/2, 1): an exact one-hot row, and
\* a row with both entries at 1/2
EncVecs == {<<2, 0>>, <<1, 1>>}

RECURSIVE SeqsUpTo(_, _)
SeqsUpTo(S, n) ==
    IF n = 0 THEN {<<>>}
    ELSE LET shorter == SeqsUpTo(S, n - 1)
         IN  shorter \cup {Append(s, x) : s \in {t \in shorter : Len(t) = n - 1}, x \in S}

Grids == SeqsUpTo(Prices, MaxLen)
Texts == SeqsUpTo(Chars, MaxStrLen) \cup {NanText, InfText}
\* what the min_margin textbox hands to the handler: None or a string
NoneInput == [none |-> TRUE, text |-> <<>>]
MinMargins == {NoneInput} \cup {[none |-> FALSE, text |-> t] : t \in Texts}

VARIABLES price_grid, model_pipe, enc, loaded, pc, req, ret, after_failure

vars == <<price_grid, model_pipe, enc, loaded, pc, req, ret, after_failure>>

\* ------------------------------------------------------- fixed-point scores
Norm(w, f) == [w |-> w + (f \div 100), f |-> f % 100]
Less(a, b) == a.w < b.w \/ (a.w = b.w /\ a.f < b.f)

BLOCKED == -1000000000
ALPHA == 8

\* ------------------------------------------------------------ the helpers
\* math.log(trial_price) raises ValueError for trial_price <= 0
LogRaises(trial_price) == trial_price <= 0

\* model_pipe.predict, carried as exp(mu)
Predict(pipe, ctx, trial_price) == pipe[<<ctx, trial_price>>]

expected_qty(pipe, ctx, trial_price) ==
    LET e == Predict(pipe, ctx, trial_price)
    IN  IF e - 1 > 0 THEN e - 1 ELSE 0

expected_revenue(pipe, ctx, trial_price) ==
    trial_price * expected_qty(pipe, ctx, trial_price)

\* ---------------------------------------------------- min_margin handling
IsSpace(c) == c = " "

RECURSIVE LStrip(_)
LStrip(s) == IF s # <<>> /\ IsSpace(Head(s)) THEN LStrip(Tail(s)) ELSE s

RECURSIVE RStrip(_)
RStrip(s) ==
    IF s # <<>> /\ IsSpace(s[Len(s)]) THEN RStrip(SubSeq(s, 1, Len(s) - 1)) ELSE s

Strip(s) == RStrip(LStrip(s))

DigitVal ==
    [c \in {"0", "1", "2", "3", "4", "5", "6", "7", "8", "9"} |->
        CASE c = "0" -> 0 [] c = "1" -> 1 [] c = "2" -> 2 [] c = "3" -> 3
          [] c = "4" -> 4 [] c = "5" -> 5 [] c = "6" -> 6 [] c = "7" -> 7
          [] c = "8" -> 8 [] c = "9" -> 9]

RECURSIVE Decimal(_)
Decimal(s) == IF s = <<>> THEN 0 ELSE 10 * Decimal(SubSeq(s, 1, Len(s) - 1)) + DigitVal[s[Len(s)]]

\* float(text): a number, nan, inf, or ValueError
ParseFloat(text) ==
    LET t == Strip(text)
    IN  IF t = NanText THEN [kind |-> "nan", val |-> 0]
        ELSE IF t = InfText THEN [kind |-> "inf", val |-> 0]
        ELSE IF t # <<>> /\ \A i \in 1..Len(t) : t[i] \in DOMAIN DigitVal
             THEN [kind |-> "num", val |-> Decimal(t)]
        ELSE [kind |-> "error", val |-> 0]

\* lines 71-78: mm is None, a float, or the handler returns
Guardrail(min_margin) ==
    LET t == IF min_margin.none THEN <<>> ELSE Strip(min_margin.text)
    IN  IF min_margin.none \/ t = <<>> \/ t = <<" ">>
        THEN [kind |-> "none", val |-> 0]
        ELSE ParseFloat(t)

\* p < mm for a float mm (every comparison with nan is false)
BelowMargin(p, mm) ==
    \/ mm.kind = "num" /\ p < mm.val
    \/ mm.kind = "inf"

\* the comparison of line 88 written p <= mm
IsBlockedInclusive(p, mm) ==
    mm.kind # "none" /\ (BelowMargin(p, mm) \/ (mm.kind = "num" /\ p = mm.val))

\* line 88: mm is not None and p < mm
IsBlocked(p, mm) == mm.kind # "none" /\ BelowMargin(p, mm)

\* --------------------------------------------------- context uncertainty
Isqrt(m) == CHOOSE r \in 0..m : r * r <= m /\ m < (r + 1) * (r + 1)

RECURSIVE SumDispersion(_)
\* sum of x*(1-x) over the encoded vector, in quarters
SumDispersion(X) ==
    IF X = <<>> THEN 0 ELSE Head(X) * (2 - Head(X)) + SumDispersion(Tail(X))

\* sigma = sqrt((X * (1 - X)).sum()), in tenths
Sigma(X) == Isqrt(25 * SumDispersion(X))

Alpha(explore) == IF explore THEN ALPHA ELSE 0

\* ---------------------------------------------------------- choose_price
\* the test of line 67 without its length part
UnusableEmptyOnly(grid) == grid = <<>>

\* the test of line 67 counting distinct prices
UnusableDistinct(grid) == Cardinality({grid[i] : i \in 1..Len(grid)}) < 2

\* line 67: not grid or len(grid) < 2
Unusable(grid) == grid = <<>> \/ Len(grid) < 2

\* line 66: price_grid.get(item_id, [])
GridOf(store, item_id) == IF item_id \in DOMAIN store THEN store[item_id] ELSE <<>>

\* a blocked candidate scored 0 instead of the sentinel
BlockedScoreZero == Norm(0, 0)

\* lines 90-91: the score of a blocked candidate
BlockedScore == Norm(BLOCKED, 0)

\* the bonus scaled by the candidate's price
UcbPriceScaled(er, alpha, sigma, p) == Norm(er, alpha * sigma * p)

\* line 95: ucb = er + alpha * sigma (the same bonus for every candidate p)
Ucb(er, alpha, sigma, p) == Norm(er, alpha * sigma)

EmptyAcc ==
    [rows |-> <<>>, scores |-> <<>>, penalized |-> FALSE,
     adapter_calls |-> <<>>, predict_calls |-> 0, raised |-> FALSE]

RECURSIVE ScoreGrid(_, _, _, _, _, _, _)
\* lines 85-97: the loop over the grid, from position i on
ScoreGrid(pipe, ctx, grid, mm, alpha, sigma, acc) ==
    IF grid = <<>> \/ acc.raised THEN acc
    ELSE LET p == Head(grid)
         IN  IF IsBlocked(p, mm)
             THEN ScoreGrid(pipe, ctx, Tail(grid), mm, alpha, sigma,
                    [acc EXCEPT
                       !.penalized = TRUE,
                       !.rows = Append(@, [price |-> p, exp_qty |-> 0,
                                           exp_rev |-> BLOCKED, ucb |-> BlockedScore]),
                       !.scores = Append(@, BlockedScore)])
             ELSE IF LogRaises(p)
             THEN [acc EXCEPT !.raised = TRUE, !.adapter_calls = Append(@, p)]
             ELSE LET er  == expected_revenue(pipe, ctx, p)
                      qty == expected_qty(pipe, ctx, p)
                      ucb == Ucb(er, alpha, sigma, p)
                  IN  ScoreGrid(pipe, ctx, Tail(grid), mm, alpha, sigma,
                        [acc EXCEPT
                           !.rows = Append(@, [price |-> p, exp_qty |-> qty,
                                               exp_rev |-> er, ucb |-> ucb]),
                           !.scores = Append(@, ucb),
                           !.adapter_calls = @ \o <<p, p>>,
                           !.predict_calls = @ + 2])

\* an arg-max that keeps the last position holding the maximum
ArgMaxLast(scores) ==
    CHOOSE i \in 1..Len(scores) :
        /\ \A j \in 1..Len(scores) : ~Less(scores[i], scores[j])
        /\ \A j \in (i + 1)..Len(scores) : Less(scores[j], scores[i])

\* np.argmax: the first position holding the maximum (1-based here)
ArgMax(scores) ==
    CHOOSE i \in 1..Len(scores) :
        /\ \A j \in 1..Len(scores) : ~Less(scores[i], scores[j])
        /\ \A j \in 1..(i - 1) : Less(scores[j], scores[i])

RECURSIVE InsertPrice(_, _)
InsertPrice(sorted, p) ==
    IF sorted = <<>> THEN <<p>>
    ELSE IF p < Head(sorted) THEN <<p>> \o sorted
    ELSE <<Head(sorted)>> \o InsertPrice(Tail(sorted), p)

RECURSIVE SortedPrices(_)
SortedPrices(grid) ==
    IF grid = <<>> THEN <<>>
    ELSE InsertPrice(SortedPrices(SubSeq(grid, 1, Len(grid) - 1)), grid[Len(grid)])

\* best_idx read against the price-sorted table instead of the grid
ChosenPriceSorted(grid, best_idx) == SortedPrices(grid)[best_idx + 1]

\* line 100: best_price = float(grid[best_idx])
ChosenPrice(grid, best_idx) == grid[best_idx + 1]

\* line 101: the first row whose price equals best_price
BestRow(rows, best_price) ==
    rows[CHOOSE i \in 1..Len(rows) :
            /\ rows[i].price = best_price
            /\ \A j \in 1..(i - 1) : rows[j].price # best_price]

RECURSIVE InsertByPrice(_, _)
InsertByPrice(sorted, r) ==
    IF sorted = <<>> THEN <<r>>
    ELSE IF r.price < Head(sorted).price THEN <<r>> \o sorted
    ELSE <<Head(sorted)>> \o InsertByPrice(Tail(sorted), r)

RECURSIVE SortByPrice(_)
\* line 102: sort_values("price")
SortByPrice(rows) ==
    IF rows = <<>> THEN <<>>
    ELSE InsertByPrice(SortByPrice(SubSeq(rows, 1, Len(rows) - 1)), rows[Len(rows)])

\* line 127: the summary reports the guardrail as applied
GuardrailApplied(penalized, mm) == penalized /\ mm.kind # "none"

NoRow == [price |-> 0, exp_qty |-> 0, exp_rev |-> 0, ucb |-> Norm(0, 0)]

\* the four outputs of the handler, with the calls it made on the way
Outcome(kind, note) ==
    [kind |-> kind, note |-> note, arm_index |-> -1, chosen_price |-> -1,
     best_row |-> NoRow, table |-> <<>>, scores |-> <<>>,
     guardrail_applied |-> FALSE, exploration |-> FALSE,
     adapter_calls |-> <<>>, predict_calls |-> 0, enc_calls |-> 0]

choose_price(store, pipe, encoder, r) ==
    IF r.item_id = "" THEN Outcome("no_item", "Pick an item_id.")
    ELSE LET grid == GridOf(store, r.item_id) IN
    IF Unusable(grid) THEN Outcome("no_grid", "No usable price grid")
    ELSE LET mm == Guardrail(r.min_margin) IN
    IF mm.kind = "error" THEN Outcome("invalid_guardrail", "min_margin must be numeric.")
    ELSE LET sigma == Sigma(encoder[r.ctx])
             alpha == Alpha(r.explore)
             acc   == ScoreGrid(pipe, r.ctx, grid, mm, alpha, sigma, EmptyAcc)
         IN  IF acc.raised
             THEN [Outcome("raised", "ValueError") EXCEPT
                     !.adapter_calls = acc.adapter_calls,
                     !.predict_calls = acc.predict_calls,
                     !.enc_calls = 1]
             ELSE LET best_idx   == ArgMax(acc.scores) - 1
                      best_price == ChosenPrice(grid, best_idx)
                  IN  [kind |-> "decision", note |-> "Recommended price",
                       arm_index |-> best_idx, chosen_price |-> best_price,
                       best_row |-> BestRow(acc.rows, best_price),
                       table |-> SortByPrice(acc.rows), scores |-> acc.scores,
                       guardrail_applied |-> GuardrailApplied(acc.penalized, mm),
                       exploration |-> alpha > 0,
                       adapter_calls |-> acc.adapter_calls,
                       predict_calls |-> acc.predict_calls, enc_calls |-> 1]

\* the item's grid sorted in place for the table
StoreAfterSorted(store, item_id) ==
    [i \in DOMAIN store |-> IF i = item_id THEN SortedPrices(store[i]) ELSE store[i]]

\* the handler assigns to none of the loaded objects
StoreAfter(store, item_id) == store

\* ------------------------------------------------------------ the system
Requests ==
    [item_id : ItemIds, ctx : Contexts, min_margin : MinMargins, explore : BOOLEAN]

NoRequest ==
    [item_id |-> "", ctx |-> CHOOSE c \in Contexts : TRUE,
     min_margin |-> NoneInput, explore |-> FALSE]

Stores == {<<>>} \cup {[i \in {StoredItem} |-> g] : g \in Grids}

Init ==
    /\ price_grid \in Stores
    /\ model_pipe \in [Contexts \X PosPrices -> ExpMus]
    /\ enc \in [Contexts -> EncVecs]
    /\ loaded = [price_grid |-> price_grid, model_pipe |-> model_pipe, enc |-> enc]
    /\ pc = "idle"
    /\ req = NoRequest
    /\ ret = Outcome("none", "")
    /\ after_failure = FALSE

\* btn.click: the handler runs on the inputs of the form
Click ==
    /\ pc = "idle"
    /\ \E r \in Requests :
         /\ req' = r
         /\ ret' = choose_price(price_grid, model_pipe, enc, r)
         /\ price_grid' = StoreAfter(price_grid, r.item_id)
    /\ pc' = "returned"
    /\ UNCHANGED <<model_pipe, enc, loaded, after_failure>>

\* the outputs are handed to the page and the handler's locals are gone
Render ==
    /\ pc = "returned"
    /\ pc' = "idle"
    /\ after_failure' = (ret.kind # "decision")
    /\ req' = NoRequest
    /\ ret' = Outcome("none", "")
    /\ UNCHANGED <<price_grid, model_pipe, enc, loaded>>

Next == Click \/ Render

Spec == Init /\ [][Next]_vars

\* ------------------------------------------------------------ properties
Returned == pc = "returned"
Decided == Returned /\ ret.kind = "decision"
ReqGrid == GridOf(price_grid, req.item_id)
ReqMargin == Guardrail(req.min_margin)
Positions == 1..Len(ReqGrid)
Sentinel == [w |-> -1000000000, f |-> 0]
PositiveGrid == \A i \in Positions : ReqGrid[i] > 0

\* the guardrail of the request as a threshold: a real number or +infinity
HasThreshold == ReqMargin.kind \in {"num", "inf"}
StrictlyBelow(p, mm) == (mm.kind = "num" /\ p < mm.val) \/ mm.kind = "inf"
AtOrAbove(p, mm) == mm.kind = "num" /\ p >= mm.val
NotBlockedPrice(p) == ReqMargin.kind = "none" \/ AtOrAbove(p, ReqMargin)
BlockedPrice(p) == StrictlyBelow(p, ReqMargin)

\* C1: when some grid price is not blocked (no guardrail, or price >= guardrail)
\* the chosen index is a non-blocked candidate; a blocked candidate (price <
\* guardrail) is chosen only when every candidate of the grid is blocked.
C1_BlockedNeverWins ==
    Decided =>
        LET chosen == ReqGrid[ret.arm_index + 1]
        IN  /\ (\E i \in Positions : NotBlockedPrice(ReqGrid[i])) => NotBlockedPrice(chosen)
            /\ BlockedPrice(chosen) => \A i \in Positions : BlockedPrice(ReqGrid[i])

\* a blocked candidate stands before the winner, which earns no revenue at all
C1_Witness ==
    /\ Decided
    /\ ret.arm_index > 0
    /\ BlockedPrice(ReqGrid[1])
    /\ NotBlockedPrice(ReqGrid[ret.arm_index + 1])
    /\ ret.best_row.exp_rev = 0

MaxPositions(scores) ==
    {i \in 1..Len(scores) : \A j \in 1..Len(scores) : ~Less(scores[i], scores[j])}
Smallest(S) == CHOOSE x \in S : \A y \in S : x <= y

\* C2: a request that passes the preconditions returns as arm_index the smallest
\* index, in grid order, whose score is the maximum over all candidates, and
\* chosen_price is the grid's price at that index; equal scores go to the
\* earliest position.
C2_FirstArgMax ==
    Decided =>
        /\ Len(ret.scores) = Len(ReqGrid)
        /\ ret.arm_index = Smallest(MaxPositions(ret.scores)) - 1
        /\ ret.chosen_price = ReqGrid[ret.arm_index + 1]

\* two different prices earn the same, maximal revenue (4 * 10 = 5 * 8), the
\* dearer one standing first in the grid
C2_Witness ==
    /\ Decided
    /\ \E i, j \in MaxPositions(ret.scores) : i < j /\ ReqGrid[i] > ReqGrid[j]
    /\ ret.arm_index = 0
    /\ ret.best_row.exp_rev = 40

\* C3: a non-empty item whose grid is missing or shorter than 2 gets the
\* "no usable grid" outcome, with an empty decision and an empty table and no
\* call to the predictor or the encoder, whatever the guardrail and the flag.
C3_ShortGridRejected ==
    (Returned /\ req.item_id # "" /\ Len(ReqGrid) < 2) =>
        /\ ret.kind = "no_grid"
        /\ ret.arm_index = -1 /\ ret.chosen_price = -1
        /\ ret.table = <<>> /\ ret.scores = <<>>
        /\ ret.adapter_calls = <<>> /\ ret.predict_calls = 0 /\ ret.enc_calls = 0

\* a one-price grid, asked for with an unparseable guardrail and exploration on
C3_Witness ==
    /\ Returned /\ req.item_id # ""
    /\ Len(ReqGrid) = 1
    /\ ReqMargin.kind = "error"
    /\ req.explore
    /\ ret.kind = "no_grid"

\* a text that denotes a real number: digits only, once trimmed
IsRealLiteral(text) ==
    LET t == Strip(text)
    IN  t # <<>> /\ \A i \in 1..Len(t) : t[i] \in {"0", "1", "2", "3", "4", "5", "6", "7", "8", "9"}
Present(min_margin) == ~min_margin.none /\ Strip(min_margin.text) # <<>>

\* C4: for a non-empty item with a usable grid, a guardrail value that is
\* present but is no real number gets the "invalid guardrail" outcome, with no
\* candidate scored and no predictor call.  (Stated for grids of positive
\* prices, where no candidate can make the handler raise.)
C4_InvalidGuardrailRejected ==
    (/\ Returned /\ req.item_id # "" /\ Len(ReqGrid) >= 2 /\ PositiveGrid
     /\ Present(req.min_margin) /\ ~IsRealLiteral(req.min_margin.text)) =>
        /\ ret.kind = "invalid_guardrail"
        /\ ret.scores = <<>> /\ ret.table = <<>>
        /\ ret.adapter_calls = <<>> /\ ret.predict_calls = 0

\* C5: a guardrail strictly above every price of a usable grid yields a
\* decision, not an exception: every candidate carries the sentinel, the first
\* grid position is chosen with the sentinel as its expected revenue, and the
\* guardrail is reported as applied.
C5_FullBlock ==
    (/\ Returned /\ req.item_id # "" /\ Len(ReqGrid) >= 2
     /\ HasThreshold /\ \A i \in Positions : StrictlyBelow(ReqGrid[i], ReqMargin)) =>
        /\ ret.kind = "decision"
        /\ Len(ret.scores) = Len(ReqGrid)
        /\ \A i \in Positions : ret.scores[i] = Sentinel
        /\ ret.arm_index = 0 /\ ret.chosen_price = ReqGrid[1]
        /\ ret.best_row.exp_rev = -1000000000
        /\ ret.guardrail_applied

\* a numeric guardrail above a grid of two different prices, one of them 0
C5_Witness ==
    /\ Decided
    /\ ReqMargin.kind = "num"
    /\ \A i \in Positions : ReqGrid[i] < ReqMargin.val
    /\ \E i \in Positions : ReqGrid[i] = 0
    /\ ReqGrid[1] > 0
    /\ ret.guardrail_applied

Flipped == [req EXCEPT !.explore = ~@]

C7_NoNonPositivePriceToAdapter ==
    Returned => \A i \in 1..Len(ret.adapter_calls) : ret.adapter_calls[i] > 0

DistinctPrices(grid) == {grid[i] : i \in 1..Len(grid)}

\* C8 (as stated): a grid with fewer than 2 distinct prices gets the "no usable
\* grid" outcome.  (Stated for grids of positive prices, where no candidate
\* can make the handler raise.)
C8_DistinctPricesRequired ==
    (/\ Returned /\ req.item_id # "" /\ PositiveGrid
     /\ Cardinality(DistinctPrices(ReqGrid)) < 2) =>
        ret.kind = "no_grid"

\* C8 (amended): the "no usable grid" outcome is returned exactly for the grids
\* with fewer than 2 entries; a grid of 2 or more entries is usable whether or
\* not its entries differ.
C8_TwoEntriesSuffice ==
    (Returned /\ req.item_id # "") =>
        (ret.kind = "no_grid" <=> Len(ReqGrid) < 2)

\* a grid of equal entries is scored and one of them is chosen
C8_Witness ==
    /\ Decided
    /\ Len(ReqGrid) >= 2
    /\ Cardinality(DistinctPrices(ReqGrid)) = 1
    /\ ret.predict_calls > 0

BlockedPositions(result) == {i \in 1..Len(result.scores) : result.scores[i] = Sentinel}
\* the guardrail inputs that denote a threshold, one text per threshold
Thresholds ==
    {m \in MinMargins :
        /\ ~m.none /\ m.text = Strip(m.text)
        /\ Guardrail(m).kind \in {"num", "inf"}}
AtMost(m1, m2) == m2.kind = "inf" \/ (m1.kind = "num" /\ m2.kind = "num" /\ m1.val <= m2.val)

\* C9: with item, context, grid and flag fixed, the positions blocked under a
\* threshold are blocked under every threshold at least as high, and a
\* position is blocked exactly when its price is strictly below the threshold.
C9_GuardrailMonotone ==
    (Decided /\ HasThreshold) =>
        /\ BlockedPositions(ret) = {i \in Positions : StrictlyBelow(ReqGrid[i], ReqMargin)}
        /\ \A m \in Thresholds :
              AtMost(ReqMargin, Guardrail(m)) =>
                LET higher == choose_price(price_grid, model_pipe, enc,
                                           [req EXCEPT !.min_margin = m])
                IN  /\ higher.kind = "decision"
                    /\ BlockedPositions(ret) \subseteq BlockedPositions(higher)

\* one price below the threshold and one equal to it
C9_Witness ==
    /\ Decided /\ ReqMargin.kind = "num"
    /\ \E i \in Positions : ReqGrid[i] = ReqMargin.val /\ i \notin BlockedPositions(ret)
    /\ \E i \in Positions : ReqGrid[i] > 0 /\ i \in BlockedPositions(ret)

\* C10: no request, successful or rejected, changes the price grid store, the
\* predictor or the encoder, and a request's outcome is the one its own inputs
\* give on the objects as loaded, whatever requests preceded it.
C10_NoCarryOver ==
    /\ [](Returned =>
            ret = choose_price(loaded.price_grid, loaded.model_pipe, loaded.enc, req))
    /\ [][/\ price_grid' = price_grid
          /\ model_pipe' = model_pipe
          /\ enc' = enc]_vars

\* a decision on an unsorted grid, right after a request that failed
C10_Witness ==
    /\ Decided /\ after_failure
    /\ \E i \in Positions : i > 1 /\ ReqGrid[i] < ReqGrid[i - 1]

====
